---- MODULE Spec2Model ----
(***************************************************************************)
(* Model of gtkmvc3's observer registration core                           *)
(* (src/gtkmvco/gtkmvc3/observer.py, class Observer).                      *)
(*                                                                         *)
(* One Observer instance is modelled: its five private maps, the class     *)
(* hierarchy it is instantiated from (the declarations left by the         *)
(* decorator Observer.observe), the dynamic calls observe and              *)
(* remove_observing_method, and the calls it makes to the model it         *)
(* observes.                                                               *)
(*                                                                         *)
(* Further specifications over the same variables model the notification   *)
(* info object NTInfo (SpecNTInfo), the deprecated decorator observes       *)
(* (SpecObserves), the thread example's model changed by worker threads    *)
(* (SpecMT, examples/thread/model.py) and the signal test (SpecSignal,     *)
(* tests/thread_signal.py).                                                *)
(***************************************************************************)
EXTENDS Integers, Sequences, FiniteSets, TLC

\* ---------------------------------------------------------------- bounds

\* longest prop_names sequence handed to remove_observing_method
MaxNames == 2

\* most declarations (decorator applications) in one class hierarchy
MaxDecls == 2

\* most arguments in one call of the decorator factory observes
MaxObsArgs == 2

\* most observes decorators stacked on one method
MaxStack == 2

\* most positional parameters of a decorated method
MaxParams == 9

\* iterations of the loop of the worker thread (the example has 9)
LoopCount == 2

\* most notifications waiting for the main loop
MaxQueue == 3

\* most emits of the signal
MaxEmits == 4

\* ---------------------------------------------------------------- universe

\* notification methods of the observer; a bound method is identified by
\* its name (getattr(self, name) yields the most derived one)
Methods == {"m1", "m2"}

\* property names and patterns used in calls, with their characters
Chars ==
  [n \in {"a", "b", "?", "[a]"} |->
     CASE n = "a"   -> <<"a">>
       [] n = "b"   -> <<"b">>
       [] n = "?"   -> <<"?">>
       [] n = "[a]" -> <<"[", "a", "]">>]

Names == DOMAIN Chars

\* the classes of the observer's method resolution order, most derived first
MRO == <<"Derived", "Base">>

\* keyword options of an observe declaration, as sets of <<key, value>>
KwOptions == { {<<"assign", TRUE>>}, {<<"spam", TRUE>>} }

\* "no model" argument of the constructor
None == "None"

\* the model objects an observer can be given
Models == {"model"}

\* ---------------------------------------------------------------- helpers

Range(s) == {s[i] : i \in DOMAIN s}

\* Python dict operations on functions with finite domain
EmptyDict == [k \in {} |-> {}]

Put(d, k, v) == [x \in DOMAIN d \cup {k} |-> IF x = k THEN v ELSE d[x]]

Del(d, k) == [x \in DOMAIN d \ {k} |-> d[x]]

\* ---------------------------------------------------------------- fnmatch

\* this used for pattern matching
WILDCARDS == {"[", "]", "!", "*", "?"}

\* the names n with frozenset(n) & WILDCARDS not empty
Patterns == {n \in Names : Range(Chars[n]) \cap WILDCARDS # {}}

\* frozenset(prop_name) & WILDCARDS
HasWildcards(n) == n \in Patterns

\* fnmatch.translate's search for the "]" closing the "[" at p[1]:
\* its index, or 0 when the bracket is not closed (then "[" is literal)
ClosingBracket(p) ==
  LET n  == Len(p)
      j1 == IF 2 <= n /\ p[2] = "!" THEN 3 ELSE 2
      j2 == IF j1 <= n /\ p[j1] = "]" THEN j1 + 1 ELSE j1
      later == {j \in j2..n : p[j] = "]"}
  IN  IF later = {} THEN 0
      ELSE CHOOSE j \in later : \A k \in later : j <= k

RECURSIVE MatchChars(_, _)
\* the regular expression fnmatch.translate(p) builds, matched against all of s
MatchChars(s, p) ==
  IF p = <<>> THEN s = <<>>
  ELSE LET c == Head(p) IN
    CASE c = "*" -> \/ MatchChars(s, Tail(p))
                    \/ s # <<>> /\ MatchChars(Tail(s), p)
      [] c = "?" -> s # <<>> /\ MatchChars(Tail(s), Tail(p))
      [] c = "[" ->
           LET j == ClosingBracket(p) IN
           IF j = 0
           THEN s # <<>> /\ Head(s) = "[" /\ MatchChars(Tail(s), Tail(p))
           ELSE LET stuff == SubSeq(p, 2, j - 1)
                    neg   == stuff[1] = "!"
                    set   == IF neg THEN Range(SubSeq(stuff, 2, Len(stuff)))
                                    ELSE Range(stuff)
                IN  /\ s # <<>>
                    /\ (Head(s) \in set) # neg
                    /\ MatchChars(Tail(s), SubSeq(p, j + 1, Len(p)))
      [] OTHER -> s # <<>> /\ Head(s) = c /\ MatchChars(Tail(s), Tail(p))

\* fnmatch.fnmatch over the names of the universe (os.path.normcase is the
\* identity on posix)
Matching == {np \in Names \X Names : MatchChars(Chars[np[1]], Chars[np[2]])}

fnmatch(name, pat) == <<name, pat>> \in Matching

\* ---------------------------------------------------------------- state

VARIABLES
  phase,                \* "class": not yet instantiated; "ready": __init__
                        \* returned; "failed": __init__ raised
  PROP_TO_METHS,        \* prop name --> set of observing methods
  METH_TO_PROPS,        \* method --> set of observed properties
  PAT_TO_METHS,         \* like PROP_TO_METHS but only for pattern names
  METH_TO_PAT,          \* method --> pattern
  PAT_METH_TO_KWARGS,   \* (pattern, method) --> info
  model_observers,      \* observers the model holds (here: this one or none)
  declared,             \* history: (name, method) --> options of the observe
                        \* declarations made and not removed since
  last,                 \* the call just made, its arguments and its outcome
  ntinfo,               \* the NTInfo object a receiver holds (whether it
                        \* was made, and its dict contents)
  nt_last,              \* the last NTInfo operation and its outcome
  deco_phase,           \* where the class body is: "decorators" (the
                        \* decorator expressions are evaluated), "def" (the
                        \* method exists, decorators are applied), "failed"
  pending,              \* the decorators observes returned, not yet applied
                        \* (each one is the args it closes over), outermost
                        \* first
  sig,                  \* the decorated method's signature
  marks,                \* the method's attribute __custom_observes__
  deco_last,            \* the last decorator operation and its outcome
  busy,                 \* MyModel's observable property busy
  counter,              \* MyModel's observable property counter
  workers,              \* the threads run_test started: where each is in
                        \* run, its loop index and the counter value it read
  idle_queue,           \* notifications handed to the main loop, not yet
                        \* executed
  delivered,            \* the notifications executed: the property, the
                        \* thread that changed it and the thread that ran
                        \* the observer's method
  test_pc,              \* where the signal test is: "start", "model" (m
                        \* exists), "observed" (c exists and observes m)
  sgn_observers,        \* the observers the model of the signal test holds
  sgn,                  \* the value the signal property holds
  emitted,              \* history: the arguments of the emits made
  received              \* the signal notifications the observer received

maps == <<PROP_TO_METHS, METH_TO_PROPS, PAT_TO_METHS, METH_TO_PAT,
          PAT_METH_TO_KWARGS>>

\* the state of the notification info object
nt_vars == <<ntinfo, nt_last>>

\* the state of a method decorated with observes
deco_vars == <<deco_phase, pending, sig, marks, deco_last>>

\* the state of the multi-thread model of the thread example
mt_vars == <<busy, counter, workers, idle_queue, delivered>>

\* the state of the signal test
sgn_vars == <<test_pc, sgn_observers, sgn, emitted, received>>

\* what the Observer's operations leave alone
other_vars == <<nt_vars, deco_vars, mt_vars, sgn_vars>>

vars == <<phase, PROP_TO_METHS, METH_TO_PROPS, PAT_TO_METHS, METH_TO_PAT,
          PAT_METH_TO_KWARGS, model_observers, declared, last, other_vars>>

\* the five private maps as one value
Maps ==
  [PROP_TO_METHS |-> PROP_TO_METHS, METH_TO_PROPS |-> METH_TO_PROPS,
   PAT_TO_METHS |-> PAT_TO_METHS, METH_TO_PAT |-> METH_TO_PAT,
   PAT_METH_TO_KWARGS |-> PAT_METH_TO_KWARGS]

\* the maps as __init__ creates them
EmptyMaps ==
  [PROP_TO_METHS |-> EmptyDict, METH_TO_PROPS |-> EmptyDict,
   PAT_TO_METHS |-> EmptyDict, METH_TO_PAT |-> EmptyDict,
   PAT_METH_TO_KWARGS |-> EmptyDict]

\* ---------------------------------------------------------------- registration

\* _dict[prop_name].add(method), creating the set when the key is new
AddToSet(d, k, x) == Put(d, k, (IF k \in DOMAIN d THEN d[k] ELSE {}) \cup {x})

\* register_notification without the check that a method given a pattern
\* has no other declaration
register_notification_unchecked_pattern(st, prop_name, method, kwargs) ==
  LET key == <<prop_name, method>> IN
  IF key \in DOMAIN st.PAT_METH_TO_KWARGS
  THEN [st |-> st, exc |-> "ValueError"]
  ELSE IF HasWildcards(prop_name)
  THEN [st |-> [st EXCEPT
                  !.METH_TO_PAT = Put(@, method, prop_name),
                  !.PAT_TO_METHS = AddToSet(@, prop_name, method),
                  !.PAT_METH_TO_KWARGS = Put(@, key, kwargs)],
        exc |-> "none"]
  ELSE IF method \in DOMAIN st.METH_TO_PAT
       THEN [st |-> st, exc |-> "ValueError"]
       ELSE [st |-> [st EXCEPT
                       !.METH_TO_PROPS = AddToSet(@, method, prop_name),
                       !.PROP_TO_METHS = AddToSet(@, prop_name, method),
                       !.PAT_METH_TO_KWARGS = Put(@, key, kwargs)],
             exc |-> "none"]

\* register_notification without the check that a method given an exact
\* name was not used for patterns
register_notification_unchecked_exact(st, prop_name, method, kwargs) ==
  LET key == <<prop_name, method>> IN
  IF key \in DOMAIN st.PAT_METH_TO_KWARGS
  THEN [st |-> st, exc |-> "ValueError"]
  ELSE IF HasWildcards(prop_name)
  THEN IF \/ method \in DOMAIN st.METH_TO_PAT
          \/ /\ method \in DOMAIN st.METH_TO_PROPS
             /\ st.METH_TO_PROPS[method] # {}
       THEN [st |-> st, exc |-> "ValueError"]
       ELSE [st |-> [st EXCEPT
                       !.METH_TO_PAT = Put(@, method, prop_name),
                       !.PAT_TO_METHS = AddToSet(@, prop_name, method),
                       !.PAT_METH_TO_KWARGS = Put(@, key, kwargs)],
             exc |-> "none"]
  ELSE [st |-> [st EXCEPT
                  !.METH_TO_PROPS = AddToSet(@, method, prop_name),
                  !.PROP_TO_METHS = AddToSet(@, prop_name, method),
                  !.PAT_METH_TO_KWARGS = Put(@, key, kwargs)],
        exc |-> "none"]

\* register_notification where a pair registered again has its options
\* replaced (the last registration wins) instead of raising
register_notification_last_wins(st, prop_name, method, kwargs) ==
  LET key == <<prop_name, method>> IN
  IF key \in DOMAIN st.PAT_METH_TO_KWARGS
  THEN [st |-> [st EXCEPT !.PAT_METH_TO_KWARGS = Put(@, key, kwargs)],
        exc |-> "none"]
  ELSE IF HasWildcards(prop_name)
  THEN IF \/ method \in DOMAIN st.METH_TO_PAT
          \/ /\ method \in DOMAIN st.METH_TO_PROPS
             /\ st.METH_TO_PROPS[method] # {}
       THEN [st |-> st, exc |-> "ValueError"]
       ELSE [st |-> [st EXCEPT
                       !.METH_TO_PAT = Put(@, method, prop_name),
                       !.PAT_TO_METHS = AddToSet(@, prop_name, method),
                       !.PAT_METH_TO_KWARGS = Put(@, key, kwargs)],
             exc |-> "none"]
  ELSE IF method \in DOMAIN st.METH_TO_PAT
       THEN [st |-> st, exc |-> "ValueError"]
       ELSE [st |-> [st EXCEPT
                       !.METH_TO_PROPS = AddToSet(@, method, prop_name),
                       !.PROP_TO_METHS = AddToSet(@, prop_name, method),
                       !.PAT_METH_TO_KWARGS = Put(@, key, kwargs)],
             exc |-> "none"]

\* Observer.__register_notification on maps st: the maps afterwards and the
\* exception raised ("none" when it returns)
register_notification(st, prop_name, method, kwargs) ==
  LET key == <<prop_name, method>> IN
  IF key \in DOMAIN st.PAT_METH_TO_KWARGS
  THEN [st |-> st, exc |-> "ValueError"]
  ELSE IF HasWildcards(prop_name)
  THEN IF \/ method \in DOMAIN st.METH_TO_PAT
          \/ /\ method \in DOMAIN st.METH_TO_PROPS
             /\ st.METH_TO_PROPS[method] # {}
       THEN [st |-> st, exc |-> "ValueError"]
       ELSE [st |-> [st EXCEPT
                       !.METH_TO_PAT = Put(@, method, prop_name),
                       !.PAT_TO_METHS = AddToSet(@, prop_name, method),
                       !.PAT_METH_TO_KWARGS = Put(@, key, kwargs)],
             exc |-> "none"]
  ELSE IF method \in DOMAIN st.METH_TO_PAT
       THEN [st |-> st, exc |-> "ValueError"]
       ELSE [st |-> [st EXCEPT
                       !.METH_TO_PROPS = AddToSet(@, method, prop_name),
                       !.PROP_TO_METHS = AddToSet(@, prop_name, method),
                       !.PAT_METH_TO_KWARGS = Put(@, key, kwargs)],
             exc |-> "none"]

\* ---------------------------------------------------------------- queries

\* get_observing_methods without the search among the patterns
observing_methods_exact_only(st, prop_name) ==
  IF prop_name \in DOMAIN st.PROP_TO_METHS
  THEN st.PROP_TO_METHS[prop_name] ELSE {}

\* Observer.get_observing_methods on maps st
observing_methods(st, prop_name) ==
  UNION {st.PAT_TO_METHS[pat] :
           pat \in {q \in DOMAIN st.PAT_TO_METHS : fnmatch(prop_name, q)}}
  \cup (IF prop_name \in DOMAIN st.PROP_TO_METHS
        THEN st.PROP_TO_METHS[prop_name] ELSE {})

\* Observer.is_observing_method on maps st
observing_method(st, prop_name, method) ==
  IF <<prop_name, method>> \in DOMAIN st.PAT_METH_TO_KWARGS THEN TRUE
  ELSE IF method \in DOMAIN st.METH_TO_PAT
       THEN fnmatch(prop_name, st.METH_TO_PAT[method])
       ELSE FALSE

\* Observer.get_observing_method_kwargs on maps st: the options returned, or
\* the KeyError raised by the lookup
observing_method_kwargs(st, prop_name, method) ==
  IF <<prop_name, method>> \in DOMAIN st.PAT_METH_TO_KWARGS
  THEN [exc |-> "none", kwargs |-> st.PAT_METH_TO_KWARGS[<<prop_name, method>>]]
  ELSE LET pn == IF method \in DOMAIN st.METH_TO_PAT
                 THEN st.METH_TO_PAT[method] ELSE prop_name
       IN  IF <<pn, method>> \in DOMAIN st.PAT_METH_TO_KWARGS
           THEN [exc |-> "none", kwargs |-> st.PAT_METH_TO_KWARGS[<<pn, method>>]]
           ELSE [exc |-> "KeyError", kwargs |-> {}]

get_observing_methods(prop_name) == observing_methods(Maps, prop_name)

is_observing_method(prop_name, method) ==
  observing_method(Maps, prop_name, method)

get_observing_method_kwargs(prop_name, method) ==
  observing_method_kwargs(Maps, prop_name, method)

\* ---------------------------------------------------------------- removal

\* remove_one leaving the options of a removed exact registration behind
remove_one_keeps_kwargs(st, prop_name, method) ==
  IF prop_name \in DOMAIN st.PROP_TO_METHS
  THEN IF method \notin st.PROP_TO_METHS[prop_name]
       THEN [st |-> st, exc |-> "KeyError"]
       ELSE [st |-> [st EXCEPT !.PROP_TO_METHS[prop_name] = @ \ {method}],
             exc |-> "none"]
  ELSE IF method \in DOMAIN st.METH_TO_PAT
  THEN LET pat == st.METH_TO_PAT[method]
           s1  == IF fnmatch(prop_name, pat)
                  THEN [st EXCEPT !.METH_TO_PAT = Del(@, method),
                                  !.PAT_TO_METHS[pat] = @ \ {method}]
                  ELSE st
       IN  IF <<pat, method>> \notin DOMAIN s1.PAT_METH_TO_KWARGS
           THEN [st |-> s1, exc |-> "KeyError"]
           ELSE [st |-> [s1 EXCEPT !.PAT_METH_TO_KWARGS =
                                      Del(@, <<pat, method>>)],
                 exc |-> "none"]
  ELSE [st |-> st, exc |-> "none"]

\* remove_one taking an exact name away from every method observing it
remove_one_drops_name(st, prop_name, method) ==
  IF prop_name \in DOMAIN st.PROP_TO_METHS
  THEN IF method \notin st.PROP_TO_METHS[prop_name]
       THEN [st |-> st, exc |-> "KeyError"]
       ELSE [st |-> [st EXCEPT
                       !.PROP_TO_METHS[prop_name] = {},
                       !.PAT_METH_TO_KWARGS =
                          [k \in {q \in DOMAIN @ : q[1] # prop_name} |-> @[k]]],
             exc |-> "none"]
  ELSE IF method \in DOMAIN st.METH_TO_PAT
  THEN LET pat == st.METH_TO_PAT[method]
           s1  == IF fnmatch(prop_name, pat)
                  THEN [st EXCEPT !.METH_TO_PAT = Del(@, method),
                                  !.PAT_TO_METHS[pat] = @ \ {method}]
                  ELSE st
       IN  IF <<pat, method>> \notin DOMAIN s1.PAT_METH_TO_KWARGS
           THEN [st |-> s1, exc |-> "KeyError"]
           ELSE [st |-> [s1 EXCEPT !.PAT_METH_TO_KWARGS =
                                      Del(@, <<pat, method>>)],
                 exc |-> "none"]
  ELSE [st |-> st, exc |-> "none"]

\* one round of remove_observing_method's loop on maps st; a raised KeyError
\* keeps what the round changed before it
remove_one(st, prop_name, method) ==
  IF prop_name \in DOMAIN st.PROP_TO_METHS
  THEN \* exact match
       IF method \notin st.PROP_TO_METHS[prop_name]
       THEN [st |-> st, exc |-> "KeyError"]
       ELSE LET s1 == [st EXCEPT !.PROP_TO_METHS[prop_name] = @ \ {method}] IN
            IF <<prop_name, method>> \notin DOMAIN s1.PAT_METH_TO_KWARGS
            THEN [st |-> s1, exc |-> "KeyError"]
            ELSE [st |-> [s1 EXCEPT !.PAT_METH_TO_KWARGS =
                                       Del(@, <<prop_name, method>>)],
                  exc |-> "none"]
  ELSE IF method \in DOMAIN st.METH_TO_PAT
  THEN \* found a pattern matching
       LET pat == st.METH_TO_PAT[method]
           s1  == IF fnmatch(prop_name, pat)
                  THEN [st EXCEPT !.METH_TO_PAT = Del(@, method),
                                  !.PAT_TO_METHS[pat] = @ \ {method}]
                  ELSE st
       IN  IF <<pat, method>> \notin DOMAIN s1.PAT_METH_TO_KWARGS
           THEN [st |-> s1, exc |-> "KeyError"]
           ELSE [st |-> [s1 EXCEPT !.PAT_METH_TO_KWARGS =
                                      Del(@, <<pat, method>>)],
                 exc |-> "none"]
  ELSE [st |-> st, exc |-> "none"]

RECURSIVE remove_loop(_, _, _, _)
\* remove_observing_method's loop from round i on: the maps afterwards, the
\* exception that ended it and the number of rounds begun
remove_loop(st, prop_names, method, i) ==
  IF i > Len(prop_names) THEN [st |-> st, exc |-> "none", rounds |-> i - 1]
  ELSE LET r == remove_one(st, prop_names[i], method) IN
       IF r.exc # "none" THEN [st |-> r.st, exc |-> r.exc, rounds |-> i]
       ELSE remove_loop(r.st, prop_names, method, i + 1)

\* ---------------------------------------------------------------- history

\* what one round of remove_observing_method withdraws from the declarations
\* made: the exact declaration of a name the observer knows as an exact
\* name, else the method's pattern declaration when the name matches it
Withdraw(decl, st, prop_name, method) ==
  IF prop_name \in DOMAIN st.PROP_TO_METHS
  THEN Del(decl, <<prop_name, method>>)
  ELSE [k \in {q \in DOMAIN decl :
                 ~(q[2] = method /\ HasWildcards(q[1])
                   /\ fnmatch(prop_name, q[1]))} |-> decl[k]]

RECURSIVE WithdrawAll(_, _, _, _, _)
\* the declarations left after the first `rounds` rounds
WithdrawAll(decl, st, prop_names, method, rounds) ==
  IF rounds = 0 THEN decl
  ELSE Withdraw(WithdrawAll(decl, st, prop_names, method, rounds - 1),
                st, prop_names[rounds], method)

\* ---------------------------------------------------------------- classes

\* the type flags of a notification
Flags == {"assign", "before", "after", "signal"}

\* one application of the decorator Observer.observe: the class (its place
\* in the MRO) and method it decorates, the name and the options given
Decl == [cls : 1..Len(MRO), meth : Methods, name : Names, kwargs : KwOptions]

\* a class hierarchy lists its declarations in the order __init__ visits
\* them: class by class along the MRO, method by method inside a class
Visited(h) ==
  \A i, j \in DOMAIN h :
     i < j =>
       /\ h[i].cls <= h[j].cls
       /\ (h[i].cls = h[j].cls /\ h[i].meth = h[j].meth) =>
            \A k \in i..j : h[k].meth = h[i].meth

Hierarchies ==
  {h \in UNION {[1..n -> Decl] : n \in 0..MaxDecls} : Visited(h)}

\* a declaration whose name no class before has processed is registered
never_processed(pname, processed_props) == FALSE

\* pname not in processed_props, negated: the name was processed in a more
\* derived class
already_processed(pname, processed_props) == pname \in processed_props

RECURSIVE init_loop(_, _, _, _, _)
\* the loops of Observer.__init__ over the declarations of h from the i-th
\* on, with the names processed in the classes before and in this class
init_loop(st, h, i, processed_props, cls_processed_props) ==
  IF i > Len(h) THEN [st |-> st, exc |-> "none"]
  ELSE LET newcls == i > 1 /\ h[i].cls # h[i - 1].cls
           pp  == IF newcls THEN processed_props \cup cls_processed_props
                            ELSE processed_props
           cpp == IF newcls THEN {} ELSE cls_processed_props
       IN  IF ~ already_processed(h[i].name, pp)
           THEN LET r == register_notification(st, h[i].name, h[i].meth,
                                               h[i].kwargs)
                IN  IF r.exc # "none" THEN r
                    ELSE init_loop(r.st, h, i + 1, pp, cpp \cup {h[i].name})
           ELSE init_loop(st, h, i + 1, pp, cpp)

\* ---------------------------------------------------------------- calls

\* a call made to the model, with the registrations the observer held then
Contact(call, st) == [call |-> call, table |-> DOMAIN st.PAT_METH_TO_KWARGS]

\* the record of a call: the operation, the class and model given to
\* __init__, the exception raised ("none" when it returned) and the calls it
\* made to the model
Call(op, cls, model, exc, contacts) ==
  [op |-> op, cls |-> cls, model |-> model, exc |-> exc,
   contacts |-> contacts]

SetMaps(st) ==
  /\ PROP_TO_METHS' = st.PROP_TO_METHS
  /\ METH_TO_PROPS' = st.METH_TO_PROPS
  /\ PAT_TO_METHS' = st.PAT_TO_METHS
  /\ METH_TO_PAT' = st.METH_TO_PAT
  /\ PAT_METH_TO_KWARGS' = st.PAT_METH_TO_KWARGS

\* no notification info object exists
NoObject == [made |-> FALSE, dict |-> EmptyDict]

NTInit ==
  /\ ntinfo = NoObject
  /\ nt_last = [op |-> "none", type |-> None, contents |-> EmptyDict,
                exc |-> "none"]

\* no Observer exists
ObserverInit ==
  /\ phase = "class"
  /\ PROP_TO_METHS = EmptyDict
  /\ METH_TO_PROPS = EmptyDict
  /\ PAT_TO_METHS = EmptyDict
  /\ METH_TO_PAT = EmptyDict
  /\ PAT_METH_TO_KWARGS = EmptyDict
  /\ model_observers = {}
  /\ declared = EmptyDict
  /\ last = Call("none", <<>>, None, "none", <<>>)

\* a signature before the method is defined
NoSig == [nargs |-> 0, varargs |-> FALSE]

\* the class body has not been entered
DecoInit ==
  /\ deco_phase = "decorators"
  /\ pending = <<>>
  /\ sig = NoSig
  /\ marks = <<>>
  /\ deco_last = [op |-> "none", args |-> <<>>, exc |-> "none"]

\* the threads run_test starts
WorkerIds == {"worker1", "worker2"}

\* the thread running the gtk main loop
MainThread == "main"

\* a thread not started yet
Unstarted == [pc |-> "unstarted", i |-> 0, tmp |-> 0]

\* MyModel(): __properties__ and __init__
MTInit ==
  /\ busy = FALSE
  /\ counter = 0
  /\ workers = [w \in WorkerIds |-> Unstarted]
  /\ idle_queue = <<>>
  /\ delivered = {}

\* the signal test before its first statement
SignalInit ==
  /\ test_pc = "start"
  /\ sgn_observers = {}
  /\ sgn = None
  /\ emitted = <<>>
  /\ received = <<>>

Init ==
  /\ ObserverInit
  /\ NTInit
  /\ DecoInit
  /\ MTInit
  /\ SignalInit

\* Model.register_observer(observer): the model adds the observer to the
\* set of observers it maintains
register_observer(observers, observer) == observers \cup {observer}

\* Model.unregister_observer(observer)
unregister_observer(observers, observer) == observers \ {observer}

\* __init__ handing the observer to the model before it registers the
\* declared notifications
Observer_init_model_first(h, model) ==
  /\ LET r == init_loop(EmptyMaps, h, 1, {}, {}) IN
     IF r.exc # "none"
     THEN /\ phase' = "failed"
          /\ last' = Call("__init__", h, model, r.exc,
                          IF model # None
                          THEN <<Contact("register_observer", EmptyMaps)>>
                          ELSE <<>>)
          /\ model_observers' = IF model # None
                                THEN register_observer(model_observers, "self")
                                ELSE model_observers
          /\ UNCHANGED <<maps, declared>>
     ELSE /\ phase' = "ready"
          /\ SetMaps(r.st)
          /\ declared' = r.st.PAT_METH_TO_KWARGS
          /\ IF model # None
             THEN /\ model_observers' = register_observer(model_observers, "self")
                  /\ last' = Call("__init__", h, model, "none",
                                  <<Contact("register_observer", EmptyMaps)>>)
             ELSE /\ UNCHANGED model_observers
                  /\ last' = Call("__init__", h, model, "none", <<>>)

\* Observer.__init__(model) for an observer of class hierarchy h.  When a
\* registration raises, the exception leaves __init__ and no observer exists.
Observer_init(h, model) ==
  /\ LET r == init_loop(EmptyMaps, h, 1, {}, {}) IN
     IF r.exc # "none"
     THEN /\ phase' = "failed"
          /\ last' = Call("__init__", h, model, r.exc, <<>>)
          /\ UNCHANGED <<maps, model_observers, declared>>
     ELSE /\ phase' = "ready"
          /\ SetMaps(r.st)
          /\ declared' = r.st.PAT_METH_TO_KWARGS
          /\ IF model # None
             THEN /\ model_observers' = register_observer(model_observers, "self")
                  /\ last' = Call("__init__", h, model, "none",
                                  <<Contact("register_observer", r.st)>>)
             ELSE /\ UNCHANGED model_observers
                  /\ last' = Call("__init__", h, model, "none", <<>>)

\* Observer.observe_model(model): model.register_observer(self)
observe_model(model) ==
  /\ model_observers' = register_observer(model_observers, "self")
  /\ last' = Call("observe_model", <<>>, model, "none",
                  <<Contact("register_observer", Maps)>>)
  /\ UNCHANGED <<phase, maps, declared>>

\* Observer.relieve_model(model): model.unregister_observer(self)
relieve_model(model) ==
  /\ model_observers' = unregister_observer(model_observers, "self")
  /\ last' = Call("relieve_model", <<>>, model, "none",
                  <<Contact("unregister_observer", Maps)>>)
  /\ UNCHANGED <<phase, maps, declared>>

\* the instance method observe(method, name, **kwargs)
observe(method, name, kwargs) ==
  /\ LET r == register_notification(Maps, name, method, kwargs) IN
     /\ SetMaps(r.st)
     /\ declared' = IF r.exc = "none"
                    THEN Put(declared, <<name, method>>, kwargs)
                    ELSE declared
     /\ last' = Call("observe", <<>>, None, r.exc, <<>>)
  /\ UNCHANGED <<phase, model_observers>>

\* remove_observing_method(prop_names, method)
remove_observing_method(prop_names, method) ==
  /\ LET r == remove_loop(Maps, prop_names, method, 1) IN
     /\ SetMaps(r.st)
     /\ declared' = WithdrawAll(declared, Maps, prop_names, method, r.rounds)
     /\ last' = Call("remove_observing_method", <<>>, None, r.exc, <<>>)
  /\ UNCHANGED <<phase, model_observers>>

NameSeqs == UNION {[1..n -> Names] : n \in 1..MaxNames}

\* instantiation of an observer class, with or without a model
Instantiate ==
  /\ phase = "class"
  /\ \E h \in Hierarchies, model \in Models \cup {None} :
       Observer_init(h, model)
  /\ UNCHANGED other_vars

ObserveModel ==
  /\ phase = "ready"
  /\ \E model \in Models : observe_model(model)
  /\ UNCHANGED other_vars

RelieveModel ==
  /\ phase = "ready"
  /\ \E model \in Models : relieve_model(model)
  /\ UNCHANGED other_vars

\* a dynamic declaration
Observe ==
  /\ phase = "ready"
  /\ \E m \in Methods, n \in Names, kw \in KwOptions : observe(m, n, kw)
  /\ UNCHANGED other_vars

Remove ==
  /\ phase = "ready"
  /\ \E ns \in NameSeqs, m \in Methods : remove_observing_method(ns, m)
  /\ UNCHANGED other_vars

Next == Instantiate \/ ObserveModel \/ RelieveModel \/ Observe \/ Remove

Spec == Init /\ [][Next]_vars

\* ---------------------------------------------------------------- NTInfo

\* At least one of the keys in this set is required when constructing
ONE_REQUESTED == {"assign", "before", "after", "signal"}

ALL_REQUESTED == {"model", "prop_name"}

\* the keys of the contents an NTInfo is constructed with, and the names
\* given as _type
NTKeys == {"model", "prop_name", "assign", "signal", "new"}

\* the values of the contents: an object, True and False
NTValues == {"obj", "True", "False"}

\* Python's truth value of a value
Truthy(v) == v # "False"

\* dict(*args, **kwargs): every mapping of some of the keys to values
NTContents == UNION {[ks -> NTValues] : ks \in SUBSET NTKeys}

\* NTInfo.__init__ that only asks for the key _type to be present
NTInfo_init_key_only(_type, contents) ==
  IF ~ (_type \in DOMAIN contents)
  THEN [exc |-> "KeyError", self |-> contents]
  ELSE IF ~ (ALL_REQUESTED \subseteq DOMAIN contents)
  THEN [exc |-> "AssertionError", self |-> contents]
  ELSE [exc  |-> "none",
        self |-> [k \in DOMAIN contents \ (ONE_REQUESTED \ {_type})
                    |-> contents[k]]]

\* NTInfo.__init__(_type, *args, **kwargs): the outcome and the dict built
NTInfo_init(_type, contents) ==
  IF ~ (_type \in DOMAIN contents /\ Truthy(contents[_type]))
  THEN [exc |-> "KeyError", self |-> contents]
  ELSE IF ~ (ALL_REQUESTED \subseteq DOMAIN contents)
  THEN [exc |-> "AssertionError", self |-> contents]
  ELSE [exc  |-> "none",
        self |-> [k \in DOMAIN contents \ (ONE_REQUESTED \ {_type})
                    |-> contents[k]]]

NTCall(op, arg, contents, exc) ==
  [op |-> op, type |-> arg, contents |-> contents, exc |-> exc]

\* the NTInfo object with dict contents d
Object(d) == [made |-> TRUE, dict |-> d]

\* what the NTInfo operations leave alone
NTFrame ==
  UNCHANGED <<phase, maps, model_observers, declared, last, deco_vars,
              mt_vars, sgn_vars>>

\* info = NTInfo(_type, contents), the one construction of the object; a
\* constructor that raises yields no object
NTConstruct ==
  /\ ~ ntinfo.made
  /\ nt_last.op = "none"
  /\ NTFrame
  /\ \E _type \in NTKeys, contents \in NTContents :
       LET r == NTInfo_init(_type, contents) IN
       /\ ntinfo' = IF r.exc = "none" THEN Object(r.self) ELSE NoObject
       /\ nt_last' = NTCall("__init__", _type, contents, r.exc)

\* info.name: NTInfo.__getattr__
NTGetAttr ==
  /\ ntinfo.made
  /\ NTFrame
  /\ \E name \in NTKeys :
       nt_last' = NTCall("__getattr__", name, EmptyDict,
                         IF name \in DOMAIN ntinfo.dict THEN "none"
                         ELSE "AttributeError")
  /\ UNCHANGED ntinfo

\* info[key] = value: dict.__setitem__, which NTInfo inherits
NTSetItem ==
  /\ ntinfo.made
  /\ NTFrame
  /\ \E key \in NTKeys, value \in NTValues :
       /\ ntinfo' = Object(Put(ntinfo.dict, key, value))
       /\ nt_last' = NTCall("__setitem__", key, EmptyDict, "none")

\* del info[key]: dict.__delitem__, which NTInfo inherits
NTDelItem ==
  /\ ntinfo.made
  /\ NTFrame
  /\ \E key \in NTKeys :
       IF key \in DOMAIN ntinfo.dict
       THEN /\ ntinfo' = Object(Del(ntinfo.dict, key))
            /\ nt_last' = NTCall("__delitem__", key, EmptyDict, "none")
       ELSE /\ ntinfo' = ntinfo
            /\ nt_last' = NTCall("__delitem__", key, EmptyDict, "KeyError")

NTNext == NTConstruct \/ NTGetAttr \/ NTSetItem \/ NTDelItem

\* a notification info object and what its receiver does with it
SpecNTInfo == Init /\ [][NTNext]_vars

\* ---------------------------------------------------------------- observes

\* values given to observes as arguments: the string 'a', and the integers
\* 0 and 1
ObsArgValues == {"a", "0", "1"}

\* isinstance(a, str)
IsStr(a) == a = "a"

\* the truth value of an argument
ArgTruthy(a) == a # "0"

ObsArgs == UNION {[1..n -> ObsArgValues] : n \in 0..MaxObsArgs}

\* the signatures of a method: number of positional parameters (self
\* included) and whether it takes *varargs (inspect.getargspec)
Signatures == [nargs : 0..MaxParams, varargs : BOOLEAN]

\* the argument check of observes that rejects every non-string
observes_check_strict(args) ==
  IF 0 = Len(args) THEN "TypeError"
  ELSE IF \E i \in DOMAIN args : ~ IsStr(args[i]) THEN "TypeError"
  ELSE "none"

\* the argument check of observes: any(a for a in args if not
\* isinstance(a, str)) is the truth value of some non-string argument
observes_check(args) ==
  IF 0 = Len(args) THEN "TypeError"
  ELSE IF \E i \in DOMAIN args : ~ IsStr(args[i]) /\ ArgTruthy(args[i])
  THEN "TypeError"
  ELSE "none"

args_to_type ==
  [n \in {4, 5, 7, 8} |->
     CASE n = 4 -> "signal"
       [] n = 5 -> "assign"
       [] n = 7 -> "before"
       [] n = 8 -> "after"]

\* (arg, dict({type_kw : True, 'old_style_call' : True}))
Mark(arg, type_kw) ==
  <<arg, {<<type_kw, TRUE>>, <<"old_style_call", TRUE>>}>>

\* _decorator inferring the type whether or not the method takes *varargs
decorator_ignoring_varargs(_list, args, s) ==
  IF s.nargs \in DOMAIN args_to_type
  THEN _list \o [i \in DOMAIN args |-> Mark(args[i], args_to_type[s.nargs])]
  ELSE _list

\* observes._decorator(_notified): the attribute __custom_observes__ of the
\* method afterwards, for the args of the observes call, the method's
\* signature s and the attribute _list before
decorator(_list, args, s) ==
  IF ~ s.varargs
  THEN IF s.nargs \in DOMAIN args_to_type
       THEN _list \o [i \in DOMAIN args |->
                        Mark(args[i], args_to_type[s.nargs])]
       ELSE _list
  ELSE _list

\* what the decorator operations leave alone
DecoFrame ==
  UNCHANGED <<phase, maps, model_observers, declared, last, nt_vars,
              mt_vars, sgn_vars>>

\* a decorator expression @observes(*args) above the method is evaluated;
\* an exception leaves the class body
ObservesCall ==
  /\ deco_phase = "decorators"
  /\ Len(pending) < MaxStack
  /\ DecoFrame
  /\ \E args \in ObsArgs :
       LET exc == observes_check(args) IN
       /\ deco_last' = [op |-> "observes", args |-> args, exc |-> exc]
       /\ IF exc = "none"
          THEN /\ pending' = Append(pending, args)
               /\ UNCHANGED deco_phase
          ELSE /\ deco_phase' = "failed"
               /\ UNCHANGED pending
  /\ UNCHANGED <<sig, marks>>

\* the def statement under the decorator expressions creates the method
DefMethod ==
  /\ deco_phase = "decorators"
  /\ pending # <<>>
  /\ DecoFrame
  /\ \E s \in Signatures : sig' = s
  /\ deco_phase' = "def"
  /\ deco_last' = [op |-> "def", args |-> <<>>, exc |-> "none"]
  /\ UNCHANGED <<pending, marks>>

\* the innermost decorator not yet applied is applied to the method
Decorate ==
  /\ deco_phase = "def"
  /\ pending # <<>>
  /\ DecoFrame
  /\ LET args == pending[Len(pending)] IN
     /\ marks' = decorator(marks, args, sig)
     /\ deco_last' = [op |-> "decorate", args |-> args, exc |-> "none"]
  /\ pending' = SubSeq(pending, 1, Len(pending) - 1)
  /\ UNCHANGED <<deco_phase, sig>>

DecoNext == ObservesCall \/ DefMethod \/ Decorate

\* a method definition under observes decorators in a class body
SpecObserves == Init /\ [][DecoNext]_vars

\* ---------------------------------------------------------------- ModelMT

\* a notification of a change of prop made by thread t that thread x executes
Delivery(prop, t, x) == [prop |-> prop, from |-> t, on |-> x]

\* the notification of a plain Model: the observer's method runs in the
\* thread that changed the property
notify_observer_directly(q, d, prop, t) ==
  [queue |-> q, delivered |-> d \cup {Delivery(prop, t, t)}]

\* ModelMT's notification of a change of prop made by thread t: run at once
\* when t is the thread of the main loop, handed to the main loop otherwise;
\* yields the queue and the deliveries afterwards
notify_observer(q, d, prop, t) ==
  IF t = MainThread
  THEN [queue |-> q, delivered |-> d \cup {Delivery(prop, t, t)}]
  ELSE [queue |-> Append(q, [prop |-> prop, from |-> t]), delivered |-> d]

\* what the operations of the thread example leave alone
MTFrame ==
  UNCHANGED <<phase, maps, model_observers, declared, last, nt_vars,
              deco_vars, sgn_vars>>

\* MyModel.run_test, called in the main loop's thread
RunTest ==
  /\ MTFrame
  /\ ~ busy
  /\ \E w \in WorkerIds : workers[w].pc = "unstarted"
  /\ LET w == CHOOSE x \in WorkerIds : workers[x].pc = "unstarted" IN
     workers' = [workers EXCEPT ![w].pc = "busy_true"]
  /\ UNCHANGED <<busy, counter, idle_queue, delivered>>

\* an assignment of value to the observable property busy by thread w;
\* observers are notified when the value changes
SetBusy(w, value, next) ==
  /\ busy' = value
  /\ workers' = [workers EXCEPT ![w].pc = next]
  /\ IF busy # value
     THEN LET r == notify_observer(idle_queue, delivered, "busy", w) IN
          /\ idle_queue' = r.queue
          /\ delivered' = r.delivered
     ELSE UNCHANGED <<idle_queue, delivered>>
  /\ UNCHANGED counter

\* self.counter += 1 by thread w: the write of the value read, plus one
SetCounter(w, next, i) ==
  /\ counter' = workers[w].tmp + 1
  /\ workers' = [workers EXCEPT ![w].pc = next, ![w].i = i]
  /\ IF counter # workers[w].tmp + 1
     THEN LET r == notify_observer(idle_queue, delivered, "counter", w) IN
          /\ idle_queue' = r.queue
          /\ delivered' = r.delivered
     ELSE UNCHANGED <<idle_queue, delivered>>
  /\ UNCHANGED busy

\* one step of MyModel.run in worker thread w
WorkerStep ==
  /\ MTFrame
  /\ Len(idle_queue) < MaxQueue
  /\ \E w \in WorkerIds :
       LET s == workers[w] IN
       CASE s.pc = "busy_true"  -> SetBusy(w, TRUE, "read")
         [] s.pc = "read"       ->
              /\ workers' = [workers EXCEPT ![w].pc = "write",
                                            ![w].tmp = counter]
              /\ UNCHANGED <<busy, counter, idle_queue, delivered>>
         [] s.pc = "write"      ->
              IF s.i < LoopCount
              THEN SetCounter(w, "read", s.i + 1)
              ELSE SetCounter(w, "busy_false", s.i)
         [] s.pc = "busy_false" -> SetBusy(w, FALSE, "done")
         [] OTHER -> FALSE

\* the main loop runs the oldest notification handed to it
IdleCallback ==
  /\ MTFrame
  /\ idle_queue # <<>>
  /\ delivered' = delivered \cup
       {Delivery(Head(idle_queue).prop, Head(idle_queue).from, MainThread)}
  /\ idle_queue' = Tail(idle_queue)
  /\ UNCHANGED <<busy, counter, workers>>

MTNext == RunTest \/ WorkerStep \/ IdleCallback

\* the thread example: a model changed by worker threads, observed in the
\* thread of the main loop
SpecMT == Init /\ [][MTNext]_vars

\* ---------------------------------------------------------------- signals

\* the arguments of emit: none (emit()), and two strings
SignalArgs == {"None", "hello!", "bye"}

\* a signal notification the observer receives
SignalNotification(arg) == [prop |-> "sgn", arg |-> arg]

\* an emit that keeps its argument as the value of the property and
\* notifies only when that value changes, as an assignment does
Signal_emit_as_assignment(observers, value, got, arg) ==
  [value |-> arg,
   got   |-> IF "c" \in observers /\ arg # value
             THEN Append(got, SignalNotification(arg))
             ELSE got]

\* Signal.emit(arg) in the thread of the observer: every observer the model
\* holds is notified at once with the argument; the signal keeps nothing.
\* Yields the value the property holds and what the observer c has received.
Signal_emit(observers, value, got, arg) ==
  [value |-> value,
   got   |-> IF "c" \in observers
             THEN Append(got, SignalNotification(arg))
             ELSE got]

\* what the signal test leaves alone
SignalFrame ==
  UNCHANGED <<phase, maps, model_observers, declared, last, nt_vars,
              deco_vars, mt_vars>>

\* m = MyModel()
MakeModel ==
  /\ SignalFrame
  /\ test_pc = "start"
  /\ test_pc' = "model"
  /\ UNCHANGED <<sgn_observers, sgn, emitted, received>>

\* c = MyObserver(m): Observer.__init__(self, model) registers c with m
MakeObserver ==
  /\ SignalFrame
  /\ test_pc = "model"
  /\ test_pc' = "observed"
  /\ sgn_observers' = register_observer(sgn_observers, "c")
  /\ UNCHANGED <<sgn, emitted, received>>

\* m.sgn.emit(arg)
Emit ==
  /\ SignalFrame
  /\ test_pc = "observed"
  /\ Len(emitted) < MaxEmits
  /\ \E arg \in SignalArgs :
       LET r == Signal_emit(sgn_observers, sgn, received, arg) IN
       /\ sgn' = r.value
       /\ received' = r.got
       /\ emitted' = Append(emitted, arg)
  /\ UNCHANGED <<test_pc, sgn_observers>>

SignalNext == MakeModel \/ MakeObserver \/ Emit

\* the signal test: a model with a signal, an observer, and emits
SpecSignal == Init /\ [][SignalNext]_vars

\* ---------------------------------------------------------------- declarations made

\* the methods declared, and not withdrawn since, for the exact name p
DeclaredExact(p) ==
  {m \in Methods : p \notin Patterns /\ <<p, m>> \in DOMAIN declared}

\* the methods declared, and not withdrawn since, with a pattern p matches
DeclaredMatching(p) ==
  {m \in Methods :
     \E pat \in Patterns : <<pat, m>> \in DOMAIN declared /\ fnmatch(p, pat)}

\* the patterns method m is registered under in PAT_TO_METHS
PatternsOf(m) == {pat \in DOMAIN PAT_TO_METHS : m \in PAT_TO_METHS[pat]}

\* the exact names method m is registered under in PROP_TO_METHS
ExactNamesOf(m) == {p \in DOMAIN PROP_TO_METHS : m \in PROP_TO_METHS[p]}

\* ---------------------------------------------------------------- C1

\* C1: in every state reached by observe and remove_observing_method calls,
\* get_observing_methods(p) is exactly the set of methods declared for the
\* exact name p together with the methods declared with a pattern that p
\* matches (so it is empty when there is none).
C1_ObservingMethodsAreDeclared ==
  phase = "ready" =>
    \A p \in Names :
       get_observing_methods(p) = DeclaredExact(p) \cup DeclaredMatching(p)

\* an exact and a pattern declaration both answer for "a" after a removal
\* has taken another declaration away
C1_Witness ==
  /\ phase = "ready"
  /\ last.op = "remove_observing_method"
  /\ DeclaredExact("a") # {}
  /\ DeclaredMatching("a") # {}
  /\ get_observing_methods("a") = Methods
  /\ get_observing_methods("b") = {}
  /\ "b" \in DOMAIN PROP_TO_METHS

\* ---------------------------------------------------------------- C2

\* C2: after any sequence of observe (decorator or dynamic) and
\* remove_observing_method calls, every method is registered under at most
\* one pattern, and a method registered under a pattern has no exact-name
\* registration at the same time.
C2_OnePatternPerMethod ==
  \A m \in Methods :
     /\ Cardinality(PatternsOf(m)) <= 1
     /\ PatternsOf(m) # {} => ExactNamesOf(m) = {}
     /\ Cardinality({pat \in Patterns : <<pat, m>> \in DOMAIN declared}) <= 1
     /\ (\E pat \in Patterns : <<pat, m>> \in DOMAIN declared) =>
          ~ \E p \in Names \ Patterns : <<p, m>> \in DOMAIN declared

\* a method holds a pattern while a further declaration for it was refused
C2_Witness ==
  /\ last.op = "observe"
  /\ last.exc = "ValueError"
  /\ DOMAIN declared = {<<"?", "m1">>}
  /\ PatternsOf("m1") = {"?"}
  /\ METH_TO_PROPS = EmptyDict

\* ---------------------------------------------------------------- C6

\* C6: for every name p without wildcard characters and every method m,
\* is_observing_method(p, m) is True if and only if m is in
\* get_observing_methods(p).
C6_IsObservingIffListed ==
  phase = "ready" =>
    \A p \in Names \ Patterns, m \in Methods :
       is_observing_method(p, m) <=> m \in get_observing_methods(p)

\* one method observes "a" by its exact name and the other by a pattern,
\* and an earlier exact registration of "b" has been removed
C6_Witness ==
  /\ phase = "ready"
  /\ \E m \in Methods : <<"a", m>> \in DOMAIN PAT_METH_TO_KWARGS
  /\ \E m \in Methods : m \in DOMAIN METH_TO_PAT /\ is_observing_method("a", m)
  /\ "b" \in DOMAIN PROP_TO_METHS
  /\ \A m \in Methods : ~ is_observing_method("b", m)

\* ---------------------------------------------------------------- C3

\* declaring name n for method m breaks the rule of one observe per method
\* using wildcards: n is a pattern and m has a declaration already, or n is
\* an exact name and m has a pattern declaration
PatternConflict(m, n) ==
  \/ n \in Patterns /\ \E q \in Names : <<q, m>> \in DOMAIN declared
  \/ n \notin Patterns /\ \E q \in Patterns : <<q, m>> \in DOMAIN declared

\* the i-th declaration of hierarchy h is not redeclared, by name, in a
\* more derived class
Effective(h, i) ==
  ~ \E k \in DOMAIN h : h[k].cls < h[i].cls /\ h[k].name = h[i].name

\* two effective declarations of h give one method a pattern and another
\* name, in either order
DeclConflict(h) ==
  \E i, j \in DOMAIN h :
     /\ i < j /\ Effective(h, i) /\ Effective(h, j)
     /\ h[i].meth = h[j].meth
     /\ h[i].name \in Patterns \/ h[j].name \in Patterns

C3_Dynamic ==
  last'.op = "observe" =>
    \A m \in Methods, n \in Names, kw \in KwOptions :
       (PatternConflict(m, n) /\ phase = "ready" /\ observe(m, n, kw)) =>
         /\ last'.exc = "ValueError"
         /\ UNCHANGED <<maps, declared>>

C3_Decorated ==
  (last.op = "__init__" /\ DeclConflict(last.cls)) =>
    /\ last.exc = "ValueError"
    /\ phase = "failed"

\* C3: if a pattern is used for a notification method, only one observe may
\* be used for that method: declaring a pattern for a method that already
\* has a pattern or an exact-name declaration, or an exact name for a method
\* that already has a pattern declaration, raises ValueError, at
\* instantiation for decorators and at the call for the dynamic observe, in
\* either order of declaration.
C3_SecondObserveWithPatternRaises == [][C3_Dynamic /\ C3_Decorated']_vars

\* instantiation refused a class whose method is decorated with an exact
\* name and then with a pattern
C3_Witness ==
  /\ last.op = "__init__"
  /\ last.exc = "ValueError"
  /\ Len(last.cls) = 2
  /\ last.cls[1].meth = last.cls[2].meth
  /\ last.cls[1].name \notin Patterns
  /\ last.cls[2].name \in Patterns

\* ---------------------------------------------------------------- C4

C4_Step ==
  last'.op = "observe" =>
    \A m \in Methods, n \in Names, kw \in KwOptions :
       (phase = "ready" /\ observe(m, n, kw)) =>
         /\ ( /\ n \notin Patterns
              /\ <<n, m>> \notin DOMAIN declared
              /\ ~ \E q \in Patterns : <<q, m>> \in DOMAIN declared ) =>
              /\ last'.exc = "none"
              /\ is_observing_method(n, m)'
              /\ (m \in get_observing_methods(n))'
              /\ get_observing_method_kwargs(n, m)'
                   = [exc |-> "none", kwargs |-> kw]
              /\ \A q \in Names \ {n} :
                    <<q, m>> \in DOMAIN declared =>
                      /\ is_observing_method(q, m)'
                      /\ get_observing_method_kwargs(q, m)'
                           = get_observing_method_kwargs(q, m)
         /\ <<n, m>> \in DOMAIN declared =>
              /\ last'.exc = "ValueError"
              /\ UNCHANGED <<maps, declared>>

ExactNameSeqs == {ns \in NameSeqs : \A i \in DOMAIN ns : ns[i] \notin Patterns}

C5_Step ==
  (last'.op = "remove_observing_method" /\ last'.exc = "none") =>
    \A ns \in ExactNameSeqs, m \in Methods :
       ( /\ \A i \in DOMAIN ns : <<ns[i], m>> \in DOMAIN declared
         /\ phase = "ready"
         /\ remove_observing_method(ns, m) ) =>
         /\ \A p \in Range(ns) :
               /\ ~ is_observing_method(p, m)'
               /\ (m \notin get_observing_methods(p))'
         /\ \A q \in Names, m2 \in Methods :
               ~ (m2 = m /\ q \in Range(ns)) =>
                 /\ is_observing_method(q, m2)' = is_observing_method(q, m2)
                 /\ (m2 \in get_observing_methods(q))'
                      = (m2 \in get_observing_methods(q))
                 /\ get_observing_method_kwargs(q, m2)'
                      = get_observing_method_kwargs(q, m2)

\* C5: after remove_observing_method(names, m) returns normally, where m was
\* declared for each exact name in names, is_observing_method(p, m) is False
\* and m is not in get_observing_methods(p) for every p in names, and what
\* get_observing_methods, is_observing_method and
\* get_observing_method_kwargs report of every other (name, method) pair is
\* unchanged.
C5_RemoveExactNamesOnly == [][C5_Step]_vars

\* m1 observed "a" and "b" and observes neither after a removal that
\* returned; m2 still observes "a"
C5_Witness ==
  /\ last.op = "remove_observing_method"
  /\ last.exc = "none"
  /\ "m1" \in DOMAIN METH_TO_PROPS
  /\ METH_TO_PROPS["m1"] = {"a", "b"}
  /\ DOMAIN declared = {<<"a", "m2">>}
  /\ get_observing_methods("a") = {"m2"}
  /\ get_observing_methods("b") = {}

\* ---------------------------------------------------------------- C7

\* C7: get_observing_method_kwargs(p, m) returns the keyword options given
\* in the observe declaration that makes m observe p: the options of the
\* exact declaration (p, m) when there is one, otherwise the options of m's
\* single pattern declaration whose pattern p matches.
C7_KwargsOfTheDeclaration ==
  phase = "ready" =>
    \A p \in Names, m \in Methods :
       /\ <<p, m>> \in DOMAIN declared =>
            get_observing_method_kwargs(p, m)
              = [exc |-> "none", kwargs |-> declared[<<p, m>>]]
       /\ <<p, m>> \notin DOMAIN declared =>
            \A pat \in Patterns :
               (<<pat, m>> \in DOMAIN declared /\ fnmatch(p, pat)) =>
                 get_observing_method_kwargs(p, m)
                   = [exc |-> "none", kwargs |-> declared[<<pat, m>>]]

\* ---------------------------------------------------------------- C8

\* the pairs (name, method) of the effective declarations of hierarchy h
EffectiveKeys(h) ==
  {<<h[i].name, h[i].meth>> : i \in {j \in DOMAIN h : Effective(h, j)}}

\* two effective declarations of h cannot both be registered
EffectiveClash(h) ==
  \E i, j \in DOMAIN h :
     /\ i < j /\ Effective(h, i) /\ Effective(h, j)
     /\ h[i].meth = h[j].meth
     /\ \/ h[i].name = h[j].name
        \/ h[i].name \in Patterns
        \/ h[j].name \in Patterns

\* C8: names declared by the observe decorator are resolved in inheritance
\* order with duplicates dropped: of the declarations of one name (exact or
\* pattern) in several classes of the MRO, those of the most derived class
\* declaring it are registered and those of its base classes are not, so
\* construction does not raise for a name redeclared in a subclass.
C8_MostDerivedDeclarationWins ==
  last.op = "__init__" =>
    LET h == last.cls IN
    /\ last.exc = "none" =>
         /\ phase = "ready"
         /\ DOMAIN PAT_METH_TO_KWARGS = EffectiveKeys(h)
         /\ \A i \in DOMAIN h :
               Effective(h, i) =>
                 /\ PAT_METH_TO_KWARGS[<<h[i].name, h[i].meth>>] = h[i].kwargs
                 /\ h[i].name \notin Patterns =>
                      h[i].meth \in get_observing_methods(h[i].name)
                 /\ h[i].name \in Patterns =>
                      /\ h[i].name \in DOMAIN PAT_TO_METHS
                      /\ h[i].meth \in PAT_TO_METHS[h[i].name]
    /\ last.exc # "none" => EffectiveClash(h)

\* a subclass redeclares, with other options, the name its base class
\* declares for the same method, and the instance holds the subclass's
C8_Witness ==
  /\ last.op = "__init__"
  /\ last.exc = "none"
  /\ Len(last.cls) = 2
  /\ last.cls[1].cls < last.cls[2].cls
  /\ last.cls[1].name = last.cls[2].name
  /\ last.cls[1].meth = last.cls[2].meth
  /\ last.cls[1].kwargs # last.cls[2].kwargs
  /\ PAT_METH_TO_KWARGS[<<last.cls[1].name, last.cls[1].meth>>]
       = last.cls[1].kwargs

\* ---------------------------------------------------------------- C9

\* C9: when a model is passed to the constructor, model.register_observer
\* is called exactly once, and only after every notification declared by
\* decorator in the class hierarchy has been registered; when no model is
\* passed, no model is contacted, and the observer can be registered later
\* with observe_model.
C9_ModelRegisteredAfterDeclarations ==
  /\ (last.op = "__init__" /\ last.exc = "none" /\ last.model # None) =>
       /\ last.contacts =
            <<[call |-> "register_observer",
               table |-> EffectiveKeys(last.cls)]>>
       /\ model_observers = {"self"}
  /\ (last.op = "__init__" /\ last.exc = "none" /\ last.model = None) =>
       /\ last.contacts = <<>>
       /\ model_observers = {}
  /\ (last.op = "__init__" /\ last.exc # "none") =>
       /\ last.contacts = <<>>
       /\ model_observers = {}
  /\ last.op = "observe_model" =>
       /\ last.contacts =
            <<[call |-> "register_observer",
               table |-> DOMAIN PAT_METH_TO_KWARGS]>>
       /\ model_observers = {"self"}

\* an observer of a class with two registered declarations was given a
\* model, which was handed the observer once, both registrations in place
C9_Witness ==
  /\ last.op = "__init__"
  /\ last.exc = "none"
  /\ last.model \in Models
  /\ Len(last.contacts) = 1
  /\ Cardinality(last.contacts[1].table) = 2
  /\ Cardinality(DOMAIN PAT_METH_TO_KWARGS) = 2

\* ---------------------------------------------------------------- C10

\* C10: at least one of the type flags assign, before, after, signal has to
\* be passed as True to observe: every registration held by an observer has
\* at least one of these four flags set to True in its keyword options.
C10_EveryRegistrationHasATypeFlag ==
  \A k \in DOMAIN PAT_METH_TO_KWARGS :
     \E f \in Flags : <<f, TRUE>> \in PAT_METH_TO_KWARGS[k]

\* ---------------------------------------------------------------- C11

\* C11: every successfully constructed NTInfo carries the keys model and
\* prop_name and at least one of the kind flags assign, before, after,
\* signal, whatever _type and contents it was constructed with.
C11_CarriesKeysAndAKindFlag ==
  (nt_last.op = "__init__" /\ nt_last.exc = "none") =>
    /\ ntinfo.made
    /\ ALL_REQUESTED \subseteq DOMAIN ntinfo.dict
    /\ DOMAIN ntinfo.dict \cap ONE_REQUESTED # {}

\* ---------------------------------------------------------------- C12

\* C12: NTInfo(_type, contents) raises KeyError exactly when the contents do
\* not contain the key _type or contain it with a false value; when the flag
\* _type is present and true the constructor does not raise KeyError.
C12_KeyErrorIffFlagNotSet ==
  nt_last.op = "__init__" =>
    ( nt_last.exc = "KeyError"
      <=> ~ ( /\ nt_last.type \in DOMAIN nt_last.contents
              /\ Truthy(nt_last.contents[nt_last.type]) ) )

\* a construction that raised KeyError for a flag that is present but false
C12_Witness ==
  /\ nt_last.op = "__init__"
  /\ nt_last.exc = "KeyError"
  /\ nt_last.type = "assign"
  /\ DOMAIN nt_last.contents = {"model", "prop_name", "assign"}
  /\ nt_last.contents["assign"] = "False"
  /\ ~ ntinfo.made

\* ---------------------------------------------------------------- C13

\* C13: an NTInfo is a read-only mapping: after construction no operation
\* available to a receiver changes its set of keys or the value of any key.
C13_ReadOnlyMapping == [][ntinfo.made => ntinfo'.dict = ntinfo.dict]_vars

\* ---------------------------------------------------------------- C14

\* the notification type the docstring of observes gives a signature with n
\* positional parameters
TypeOfParamCount(n) ==
  CASE n = 4 -> "signal"
    [] n = 5 -> "assign"
    [] n = 7 -> "before"
    [] n = 8 -> "after"
    [] OTHER -> "none"

C14_Step ==
  (deco_phase = "def" /\ pending' # pending) =>
    LET args == pending[Len(pending)]
        type == TypeOfParamCount(sig.nargs)
    IN  IF ~ sig.varargs /\ type # "none"
        THEN /\ Len(marks') = Len(marks) + Len(args)
             /\ SubSeq(marks', 1, Len(marks)) = marks
             /\ \A i \in DOMAIN args :
                   marks'[Len(marks) + i] =
                     <<args[i], {<<type, TRUE>>, <<"old_style_call", TRUE>>}>>
        ELSE /\ marks' = marks
             /\ deco_last'.exc = "none"

\* C14: applying a decorator made by observes(*names) to a method with 4, 5,
\* 7 or 8 positional parameters and no *varargs adds to the method's marks
\* one declaration per name, carrying the type flag signal, assign, before
\* or after respectively and old_style_call set to True; applied to a method
\* with any other parameter count or with *varargs it adds no mark and
\* raises nothing.
C14_TypeInferredFromParamCount == [][C14_Step]_vars

\* every decorator has been applied to a five-parameter method, which is
\* marked twice for 'a' as an old-style assign notification
C14_Witness ==
  /\ deco_last.op = "decorate"
  /\ pending = <<>>
  /\ sig = [nargs |-> 5, varargs |-> FALSE]
  /\ marks = << <<"a", {<<"assign", TRUE>>, <<"old_style_call", TRUE>>}>>,
               <<"a", {<<"assign", TRUE>>, <<"old_style_call", TRUE>>}>> >>

\* ---------------------------------------------------------------- C15

\* C15: calling observes with zero arguments, or with any argument that is
\* not a string, raises TypeError before any method is decorated.
C15_OnlyStringsAccepted ==
  ( /\ deco_last.op = "observes"
    /\ \/ Len(deco_last.args) = 0
       \/ \E i \in DOMAIN deco_last.args : ~ IsStr(deco_last.args[i]) ) =>
    /\ deco_last.exc = "TypeError"
    /\ deco_phase = "failed"
    /\ marks = <<>>

\* ---------------------------------------------------------------- C16

\* C16: every observer notification caused by a property change made in a
\* worker thread of the multi-thread model is executed on the thread running
\* the main loop, never on the worker thread that made the change.
C16_NotificationsRunInMainLoop ==
  \A d \in delivered :
     d.from \in WorkerIds => d.on = MainThread /\ d.on # d.from

\* changes of both properties made by both workers have been notified, one
\* worker has finished, and a notification is still waiting for the main loop
C16_Witness ==
  /\ \A w \in WorkerIds, prop \in {"busy", "counter"} :
        \E d \in delivered : d.from = w /\ d.prop = prop
  /\ \E w \in WorkerIds : workers[w].pc = "done"
  /\ idle_queue # <<>>

\* ---------------------------------------------------------------- C17

\* C17: for a model with a signal property and an observer registered on it
\* at construction, every emit of the signal delivers exactly one signal
\* notification to the observer, carrying the argument of that emit, in the
\* order of the emits, and the signal retains no value between emits.
C17_OneNotificationPerEmit ==
  test_pc = "observed" =>
    /\ received = [i \in DOMAIN emitted |-> SignalNotification(emitted[i])]
    /\ sgn = None

\* emit() and emit("hello!") twice were each received, in that order
C17_Witness ==
  /\ test_pc = "observed"
  /\ emitted = <<"None", "hello!", "hello!">>
  /\ Len(received) = 3
  /\ received[1].arg = "None"
  /\ received[3].arg = "hello!"

\* ---------------------------------------------------------------- C18

C18_Step ==
  \A p \in Names, m \in Methods :
     ( /\ phase = "ready"
       /\ m \in DOMAIN METH_TO_PAT
       /\ <<METH_TO_PAT[m], m>> \in DOMAIN PAT_METH_TO_KWARGS
       /\ ~ fnmatch(p, METH_TO_PAT[m])
       /\ p \notin DOMAIN PROP_TO_METHS
       /\ remove_observing_method(<<p>>, m) ) =>
       LET pat == METH_TO_PAT[m] IN
       \A q \in Names :
          fnmatch(q, pat) =>
            /\ (m \in get_observing_methods(q))'
            /\ get_observing_method_kwargs(q, m)'
                 = [exc |-> "none", kwargs |-> PAT_METH_TO_KWARGS[<<pat, m>>]]

\* C18: after remove_observing_method([p], m), where m is registered with a
\* wildcard pattern that p does not match and p is not an exactly registered
\* name, m's pattern registration is intact: m is still returned by
\* get_observing_methods for every name matching the pattern and
\* get_observing_method_kwargs still returns its keyword options.
C18_NonMatchingRemovalKeepsPattern == [][C18_Step]_vars

\* ---------------------------------------------------------------- C19

\* C19: in every state reachable by observe and remove_observing_method
\* calls, for every name p and every method m in get_observing_methods(p),
\* get_observing_method_kwargs(p, m) returns a keyword-options dictionary
\* and does not raise.
C19_KwargsOfObservingMethodNeverRaises ==
  phase = "ready" =>
    \A p \in Names :
       \A m \in get_observing_methods(p) :
          /\ get_observing_method_kwargs(p, m).exc = "none"
          /\ get_observing_method_kwargs(p, m).kwargs \in KwOptions

\* ---------------------------------------------------------------- C20

\* C20: the method-to-properties reverse map mirrors the property-to-methods
\* map: a non-wildcard name p is recorded for method m if and only if m is
\* registered for p; so a method none of whose exact-name registrations is
\* left is not recorded for any name (and can be given a pattern).
C20_ReverseMapMirrors ==
  phase = "ready" =>
    \A p \in Names \ Patterns, m \in Methods :
       (m \in DOMAIN METH_TO_PROPS /\ p \in METH_TO_PROPS[m])
         <=> (p \in DOMAIN PROP_TO_METHS /\ m \in PROP_TO_METHS[p])

====
